---- MODULE Spec2Model ----
(***************************************************************************)
(* Gym-Frontend: the admin session (App, AdminLogin) and the membership    *)
(* registration form (RegistrationForm) as state machines.                 *)
(*                                                                         *)
(* Execution is single-threaded and event-driven: every action below is    *)
(* one user event or one promise continuation, run to completion.  The     *)
(* page is loaded at / (RegistrationForm) or at /admin (AdminLogin or      *)
(* AdminPanel); the only navigation the code performs is                   *)
(* navigate('/thank-you') after a registration.  The session is modelled   *)
(* for a load at /admin; RegistrationForm reads none of its state.         *)
(***************************************************************************)
EXTENDS Integers, Sequences, FiniteSets, TLC

VARIABLES
    \* ---- App (src/unnamed/part_000) ----
    token,            \* localStorage item 'token', or NoToken when absent
    isAdminLoggedIn,  \* useState(false)
    appMounted,       \* the mount effect (useEffect, []) has run
    verify,           \* the bootstrap fetch: "idle", "pending" or "settled"
    verifyToken,      \* the token the bootstrap fetch carries as bearer
    verifyWait,       \* whole seconds the bootstrap fetch has been pending
    lastCheck,        \* history: outcome of the last check of a session credential
    \* ---- AdminLogin (src/src/components/AdminLogin.tsx) ----
    loginGen,         \* which mounted instance of AdminLogin the state below belongs to
    credentials,      \* useState({email:'', password:''})
    error,            \* useState('')
    isLoading,        \* useState(false)
    loginReqs,        \* login calls whose handleSubmit has not finished
    loginCount,       \* number of login calls issued so far
    adminToast,       \* last toast raised by AdminLogin
    \* ---- RegistrationForm (src/src/components/RegistrationForm.tsx) ----
    formData,         \* the draft
    regIsLoading,     \* useState(false) of RegistrationForm
    regReqs,          \* registration calls whose handleSubmit has not finished
    regCount,         \* number of registration calls issued so far
    regAccepted,      \* number of submits that passed local validation
    toast,            \* last toast raised by RegistrationForm
    caught,           \* message of the last error caught by handleSubmit
    blocked,          \* the browser refused the last submit (constraint validation)
    location,         \* current route: "/", "/thank-you" or "/admin"
    fileInput,        \* the file selected in <input type="file">, NoPhoto when none
    photoPreview,     \* useState(''): the file whose data URL the preview shows
    reads,            \* files a FileReader is reading (onloadend not yet run)
    selectedPlan,     \* useState('1month')
    \* ---- environment ----
    now,              \* what new Date() returns: local calendar date and minute of day
    tz,               \* offset of local time from UTC, in minutes
    \* ---- the validation rules of handleSubmit, applied to a typed string ----
    rule,             \* which rule is exercised: "email" or "phone"
    probe,            \* the string typed so far
    verdict           \* result of the rule on probe: "none", "accept" or "reject"

sessVars == <<token, isAdminLoggedIn, appMounted, verify, verifyToken, verifyWait,
              lastCheck, loginGen, credentials, error, isLoading, loginReqs,
              loginCount, adminToast>>
regVars  == <<formData, regIsLoading, regReqs, regCount, regAccepted, toast, caught,
              blocked, location>>
formVars == <<fileInput, photoPreview, reads, selectedPlan>>
envVars  == <<now, tz>>
ruleVars == <<rule, probe, verdict>>
vars     == <<sessVars, regVars, formVars, envVars, ruleVars>>

(***************************************************************************)
(* Bounds of the model.                                                    *)
(***************************************************************************)
MaxLogins == 2
MaxSubmits == 2
MaxWait == 11
MaxPhoneLen == 11
MaxEmailLen == 6

(***************************************************************************)
(* Program constants.                                                      *)
(***************************************************************************)
\* setTimeout(() => controller.abort(), 10000): ten seconds
TimeoutSecs == 10
\* const phoneRegex = /^[0-9]{10}$/
PhoneDigits == 10

NoToken == "<absent>"
StoredToken == "t0"
IssuedToken == "t1"
Tokens == {StoredToken, IssuedToken}

(***************************************************************************)
(* Session: App                                                            *)
(***************************************************************************)
NoError == ""
MSG_INVALID == "Invalid email or password"
MSG_TIMEOUT == "Request timed out. Please try again."
MSG_WRONG == "Something went wrong. Please try again."
MSG_LOGIN_FAILED == "Login failed. Please try again."
MSG_LOGIN_OK == "Login successful!"
ServerLoginMessages == {"", "Account locked"}

BlankCredentials == [email |-> "", password |-> ""]
CredentialValues == {"", "x"}

\* <AdminLogin> is mounted exactly when the /admin route does not show the panel
AdminLoginMounted == appMounted /\ ~isAdminLoggedIn
AdminPanelRendered == appMounted /\ isAdminLoggedIn

\* setIsAdminLoggedIn(true): the route swaps AdminLogin for AdminPanel, so the
\* mounted AdminLogin instance (if any) is destroyed with its component state.
LoggedInTrue ==
    /\ isAdminLoggedIn' = TRUE
    /\ IF isAdminLoggedIn
         THEN UNCHANGED <<loginGen, credentials, error, isLoading>>
         ELSE /\ loginGen' = loginGen + 1
              /\ credentials' = BlankCredentials
              /\ error' = NoError
              /\ isLoading' = FALSE

\* setIsAdminLoggedIn(false): a mounted AdminLogin stays as it is; if the panel
\* was shown, a fresh AdminLogin instance (the one loginGen already names) mounts.
LoggedInFalse ==
    /\ isAdminLoggedIn' = FALSE
    /\ UNCHANGED <<loginGen, credentials, error, isLoading>>

\* useEffect(() => {...}, []): read the token, start the verification if present
Bootstrap ==
    /\ location = "/admin"
    /\ ~appMounted
    /\ appMounted' = TRUE
    /\ IF token # NoToken
         THEN /\ verify' = "pending"
              /\ verifyToken' = token
         ELSE UNCHANGED <<verify, verifyToken>>
    /\ UNCHANGED <<token, isAdminLoggedIn, verifyWait, lastCheck, loginGen, credentials,
                   error, isLoading, loginReqs, loginCount, adminToast>>
    /\ UNCHANGED <<regVars, formVars, envVars, ruleVars>>

\* faulty variant: the failure branch forgets localStorage.removeItem
VerifyFailureNoRemove ==
    /\ token' = token
    /\ LoggedInFalse

\* faulty variant: the failure branch forgets setIsAdminLoggedIn(false)
VerifyFailureKeepsFlag ==
    /\ token' = NoToken
    /\ UNCHANGED <<isAdminLoggedIn, loginGen, credentials, error, isLoading>>

\* the failure branch shared by .then (response not ok) and .catch
VerifyFailure ==
    /\ token' = NoToken
    /\ LoggedInFalse

\* .then(response => { if (response.ok) setIsAdminLoggedIn(true) ... })
VerifyOk ==
    /\ verify = "pending"
    /\ verify' = "settled"
    /\ LoggedInTrue
    /\ lastCheck' = "ok"
    /\ UNCHANGED <<token, appMounted, verifyToken, verifyWait, loginReqs, loginCount,
                   adminToast>>
    /\ UNCHANGED <<regVars, formVars, envVars, ruleVars>>

\* .then(response => { ... else { removeItem; setIsAdminLoggedIn(false) } })
VerifyNon2xx ==
    /\ verify = "pending"
    /\ verify' = "settled"
    /\ VerifyFailure
    /\ lastCheck' = "fail"
    /\ UNCHANGED <<appMounted, verifyToken, verifyWait, loginReqs, loginCount, adminToast>>
    /\ UNCHANGED <<regVars, formVars, envVars, ruleVars>>

\* .catch(error => { removeItem; setIsAdminLoggedIn(false) }): fetch rejected
\* (network error, or a response the browser could not parse as HTTP)
VerifyRejected ==
    /\ verify = "pending"
    /\ verify' = "settled"
    /\ VerifyFailure
    /\ lastCheck' = "fail"
    /\ UNCHANGED <<appMounted, verifyToken, verifyWait, loginReqs, loginCount, adminToast>>
    /\ UNCHANGED <<regVars, formVars, envVars, ruleVars>>

\* One second passes with the bootstrap fetch still pending.  The fetch at
\* lines 45-50 is given no AbortController and no timer, so nothing else happens.
Tick ==
    /\ verify = "pending"
    /\ verifyWait < MaxWait
    /\ verifyWait' = verifyWait + 1
    /\ UNCHANGED <<token, isAdminLoggedIn, appMounted, verify, verifyToken, lastCheck,
                   loginGen, credentials, error, isLoading, loginReqs, loginCount,
                   adminToast>>
    /\ UNCHANGED <<regVars, formVars, envVars, ruleVars>>

\* faulty variant: logout forgets localStorage.removeItem
LogoutKeepsToken ==
    /\ token' = token
    /\ LoggedInFalse

\* const handleLogout = () => { removeItem('token'); setIsAdminLoggedIn(false) }
handleLogout ==
    /\ token' = NoToken
    /\ LoggedInFalse

\* the Logout button of NavBar: rendered only when isAdminLoggedIn && isAdminRoute
Logout ==
    /\ AdminPanelRendered
    /\ handleLogout
    /\ UNCHANGED <<appMounted, verify, verifyToken, verifyWait, lastCheck, loginReqs,
                   loginCount, adminToast>>
    /\ UNCHANGED <<regVars, formVars, envVars, ruleVars>>

(***************************************************************************)
(* Session: AdminLogin                                                     *)
(***************************************************************************)
LoginReq(id, gen, phase, ok) == [id |-> id, gen |-> gen, phase |-> phase, ok |-> ok]

\* the AdminLogin instance that issued r is still the mounted one
InstanceAlive(r) == AdminLoginMounted /\ r.gen = loginGen

\* onChange of the two inputs (disabled={isLoading})
ChangeCredentials ==
    /\ AdminLoginMounted
    /\ ~isLoading
    /\ \E f \in {"email", "password"}, v \in CredentialValues :
          credentials' = [credentials EXCEPT ![f] = v]
    /\ error' = NoError
    /\ UNCHANGED <<token, isAdminLoggedIn, appMounted, verify, verifyToken, verifyWait,
                   lastCheck, loginGen, isLoading, loginReqs, loginCount, adminToast>>
    /\ UNCHANGED <<regVars, formVars, envVars, ruleVars>>

\* handleSubmit up to the first await (lines 17-36).  The submit button is
\* disabled={isLoading}; both inputs are `required`.
LoginSubmit ==
    /\ AdminLoginMounted
    /\ ~isLoading
    /\ credentials.email # "" /\ credentials.password # ""
    /\ loginCount < MaxLogins
    /\ error' = NoError
    /\ isLoading' = TRUE
    /\ loginCount' = loginCount + 1
    /\ loginReqs' = loginReqs \cup {LoginReq(loginCount + 1, loginGen, "fetch", FALSE)}
    /\ UNCHANGED <<token, isAdminLoggedIn, appMounted, verify, verifyToken, verifyWait,
                   lastCheck, loginGen, credentials, adminToast>>
    /\ UNCHANGED <<regVars, formVars, envVars, ruleVars>>

\* fetch resolved with a status line; clearTimeout(timeoutId); await response.json()
LoginFetchResolved ==
    /\ \E r \in loginReqs, ok \in BOOLEAN :
          /\ r.phase = "fetch"
          /\ loginReqs' = (loginReqs \ {r}) \cup {LoginReq(r.id, r.gen, "body", ok)}
    /\ UNCHANGED <<token, isAdminLoggedIn, appMounted, verify, verifyToken, verifyWait,
                   lastCheck, loginGen, credentials, error, isLoading, loginCount,
                   adminToast>>
    /\ UNCHANGED <<regVars, formVars, envVars, ruleVars>>

\* catch + finally of handleSubmit: setError, toast.error, setIsLoading(false).
\* The setters of an unmounted instance change nothing.
LoginFailed(r, errText, toastText) ==
    /\ loginReqs' = loginReqs \ {r}
    /\ adminToast' = toastText
    /\ IF InstanceAlive(r)
         THEN error' = errText /\ isLoading' = FALSE
         ELSE UNCHANGED <<error, isLoading>>
    /\ UNCHANGED <<token, isAdminLoggedIn, appMounted, verify, verifyToken, verifyWait,
                   lastCheck, loginGen, credentials, loginCount>>
    /\ UNCHANGED <<regVars, formVars, envVars, ruleVars>>

\* the 10 s timer fires while fetch is pending: AbortError
LoginAborted ==
    \E r \in loginReqs :
        /\ r.phase = "fetch"
        /\ LoginFailed(r, MSG_TIMEOUT, MSG_TIMEOUT)

\* fetch rejected (network failure)
LoginFetchRejected ==
    \E r \in loginReqs :
        /\ r.phase = "fetch"
        /\ LoginFailed(r, MSG_WRONG, MSG_LOGIN_FAILED)

\* response.json() rejected: the body is not JSON
LoginJsonRejected ==
    \E r \in loginReqs :
        /\ r.phase = "body"
        /\ LoginFailed(r, MSG_WRONG, MSG_LOGIN_FAILED)

\* else branch (lines 49-53): data.message || 'Invalid email or password'
LoginRefused ==
    \E r \in loginReqs, m \in ServerLoginMessages :
        /\ r.phase = "body" /\ ~r.ok
        /\ LET errorMessage == IF m # "" THEN m ELSE MSG_INVALID
           IN  LoginFailed(r, errorMessage, errorMessage)

\* lines 43-46: if (data.token) localStorage.setItem('token', data.token)
StoreToken(dataToken) ==
    token' = IF dataToken # NoToken THEN dataToken ELSE token

\* lines 42-48: response.ok: store the token, toast.success, onLogin()
LoginSucceeded ==
    \E r \in loginReqs, dataToken \in {NoToken, IssuedToken} :
        /\ r.phase = "body" /\ r.ok
        /\ loginReqs' = loginReqs \ {r}
        /\ StoreToken(dataToken)
        /\ adminToast' = MSG_LOGIN_OK
        /\ LoggedInTrue
        /\ lastCheck' = "ok"
        /\ UNCHANGED <<appMounted, verify, verifyToken, verifyWait, loginCount>>
        /\ UNCHANGED <<regVars, formVars, envVars, ruleVars>>

(***************************************************************************)
(* Registration: texts, as sequences of characters                         *)
(***************************************************************************)
\* error.message.includes('email')
\* "email"
KW_EMAIL ==
    <<"e","m","a","i","l">>

\* error.message.includes('phone')
\* "phone"
KW_PHONE ==
    <<"p","h","o","n","e">>

\* "Please enter a valid email address"
EMAIL_INVALID_MSG ==
    <<"P","l","e","a","s","e"," ","e","n","t","e","r"," ","a"," ","v","a","l","i","d"," ",
      "e","m","a","i","l"," ","a","d","d","r","e","s","s">>

\* "Please enter a valid 10-digit phone number"
PHONE_INVALID_MSG ==
    <<"P","l","e","a","s","e"," ","e","n","t","e","r"," ","a"," ","v","a","l","i","d"," ",
      "1","0","-","d","i","g","i","t"," ","p","h","o","n","e"," ","n","u","m","b","e","r">>

\* "This email is already registered. Please use a different email or try logging in."
EMAIL_DUP_MSG ==
    <<"T","h","i","s"," ","e","m","a","i","l"," ","i","s"," ","a","l","r","e","a","d","y",
      " ","r","e","g","i","s","t","e","r","e","d","."," ","P","l","e","a","s","e"," ","u",
      "s","e"," ","a"," ","d","i","f","f","e","r","e","n","t"," ","e","m","a","i","l"," ",
      "o","r"," ","t","r","y"," ","l","o","g","g","i","n","g"," ","i","n",".">>

\* "This phone number is already registered. Please use a different phone number."
PHONE_DUP_MSG ==
    <<"T","h","i","s"," ","p","h","o","n","e"," ","n","u","m","b","e","r"," ","i","s"," ",
      "a","l","r","e","a","d","y"," ","r","e","g","i","s","t","e","r","e","d","."," ","P",
      "l","e","a","s","e"," ","u","s","e"," ","a"," ","d","i","f","f","e","r","e","n","t",
      " ","p","h","o","n","e"," ","n","u","m","b","e","r",".">>

\* "Registration failed. Please try again."
REG_FALLBACK_MSG ==
    <<"R","e","g","i","s","t","r","a","t","i","o","n"," ","f","a","i","l","e","d","."," ",
      "P","l","e","a","s","e"," ","t","r","y"," ","a","g","a","i","n",".">>

\* "Registration failed. Please check your information and try again."
REG_GENERIC_TOAST ==
    <<"R","e","g","i","s","t","r","a","t","i","o","n"," ","f","a","i","l","e","d","."," ",
      "P","l","e","a","s","e"," ","c","h","e","c","k"," ","y","o","u","r"," ","i","n","f",
      "o","r","m","a","t","i","o","n"," ","a","n","d"," ","t","r","y"," ","a","g","a","i",
      "n",".">>

\* "Registration successful! Please check your email."
REG_SUCCESS_TOAST ==
    <<"R","e","g","i","s","t","r","a","t","i","o","n"," ","s","u","c","c","e","s","s","f",
      "u","l","!"," ","P","l","e","a","s","e"," ","c","h","e","c","k"," ","y","o","u","r",
      " ","e","m","a","i","l",".">>

\* message of the TypeError a rejected fetch carries
\* "Failed to fetch"
FETCH_FAILED_MSG ==
    <<"F","a","i","l","e","d"," ","t","o"," ","f","e","t","c","h">>

\* message of the SyntaxError response.json() rejects with
\* "Unexpected end of JSON input"
JSON_SYNTAX_MSG ==
    <<"U","n","e","x","p","e","c","t","e","d"," ","e","n","d"," ","o","f"," ","J","S","O",
      "N"," ","i","n","p","u","t">>

\* message of the TypeError of errorData.message.includes when message is missing
\* "Cannot read properties of undefined (reading 'includes')"
UNDEFINED_INCLUDES_MSG ==
    <<"C","a","n","n","o","t"," ","r","e","a","d"," ","p","r","o","p","e","r","t","i","e",
      "s"," ","o","f"," ","u","n","d","e","f","i","n","e","d"," ","(","r","e","a","d","i",
      "n","g"," ","'","i","n","c","l","u","d","e","s","'",")">>

\* server messages (bounded sample)
\* "email already exists"
SRV_EMAIL ==
    <<"e","m","a","i","l"," ","a","l","r","e","a","d","y"," ","e","x","i","s","t","s">>

\* "phone already exists"
SRV_PHONE ==
    <<"p","h","o","n","e"," ","a","l","r","e","a","d","y"," ","e","x","i","s","t","s">>

\* "phone or email already exists"
SRV_BOTH ==
    <<"p","h","o","n","e"," ","o","r"," ","e","m","a","i","l"," ","a","l","r","e","a","d",
      "y"," ","e","x","i","s","t","s">>

\* "Email taken"
SRV_CAPS ==
    <<"E","m","a","i","l"," ","t","a","k","e","n">>

\* "Invalid plan"
SRV_OTHER ==
    <<"I","n","v","a","l","i","d"," ","p","l","a","n">>

\* email samples
\* "ab"
EM_NO_AT ==
    <<"a","b">>

\* "a@b"
EM_NO_DOT ==
    <<"a","@","b">>

\* "a@b.co"
EM_GOOD ==
    <<"a","@","b",".","c","o">>

\* "a@b..c"
EM_DOTDOT ==
    <<"a","@","b",".",".","c">>

\* phone samples
\* "987654321"
PH_9 ==
    <<"9","8","7","6","5","4","3","2","1">>

\* "9876543210"
PH_10 ==
    <<"9","8","7","6","5","4","3","2","1","0">>

\* "98765432101"
PH_11 ==
    <<"9","8","7","6","5","4","3","2","1","0","1">>

\* "98765x3210"
PH_ALPHA ==
    <<"9","8","7","6","5","x","3","2","1","0">>

\* errorData.message when the error body has no message member
Undefined == <<"<undefined>">>
ServerMessages == {SRV_EMAIL, SRV_PHONE, SRV_BOTH, SRV_CAPS, SRV_OTHER, <<>>, Undefined}

NameSamples == {"", "Asha"}
DobSamples == {"", "2001-05-17"}
EmailSamples == {<<>>, EM_NO_AT, EM_NO_DOT, EM_GOOD, EM_DOTDOT}
PhoneSamples == {<<>>, PH_9, PH_10, PH_11, PH_ALPHA}
Statuses == {200, 400, 500}

Digit == {"0", "1", "2", "3", "4", "5", "6", "7", "8", "9"}
Letter == {"a", "b", "c", "o", "x"}
Whitespace == {" "}

(***************************************************************************)
(* Registration: pure helpers                                              *)
(***************************************************************************)
\* String.prototype.includes
Includes(s, sub) ==
    \E i \in 0..(Len(s) - Len(sub)) : SubSeq(s, i + 1, i + Len(sub)) = sub

\* [^\s@]+
NoSpaceNoAt(s) ==
    /\ Len(s) > 0
    /\ \A k \in 1..Len(s) : s[k] \notin Whitespace /\ s[k] # "@"

\* faulty variant: the pattern without its "\.[^\s@]+" tail
EmailRegexNoDot(s) ==
    \E i \in 1..Len(s) :
        /\ s[i] = "@"
        /\ NoSpaceNoAt(SubSeq(s, 1, i - 1))
        /\ NoSpaceNoAt(SubSeq(s, i + 1, Len(s)))

\* /^[^\s@]+@[^\s@]+\.[^\s@]+$/.test(s)
EmailRegex(s) ==
    \E i \in 1..Len(s), j \in 1..Len(s) :
        /\ i < j
        /\ s[i] = "@"
        /\ s[j] = "."
        /\ NoSpaceNoAt(SubSeq(s, 1, i - 1))
        /\ NoSpaceNoAt(SubSeq(s, i + 1, j - 1))
        /\ NoSpaceNoAt(SubSeq(s, j + 1, Len(s)))

\* faulty variant: the pattern without its "$" anchor
PhoneRegexUnanchored(s) ==
    /\ Len(s) >= PhoneDigits
    /\ \A k \in 1..PhoneDigits : s[k] \in Digit

\* /^[0-9]{10}$/.test(s)
PhoneRegex(s) ==
    /\ Len(s) = PhoneDigits
    /\ \A k \in 1..Len(s) : s[k] \in Digit

\* <input type="email">: the browser's valid-e-mail-address check, restricted to
\* the characters of the samples (letters, digits, ".", "-", "@", " ")
EmailTypeValid(s) ==
    \E i \in 1..Len(s) :
        /\ s[i] = "@"
        /\ i > 1 /\ i < Len(s)
        /\ \A k \in 1..(i - 1) : s[k] \in Letter \cup Digit \cup {".", "-"}
        /\ \A k \in (i + 1)..Len(s) : s[k] \in Letter \cup Digit \cup {".", "-"}
        /\ s[i + 1] \notin {".", "-"}
        /\ s[Len(s)] \notin {".", "-"}
        /\ \A k \in (i + 1)..(Len(s) - 1) :
              /\ s[k] = "." => s[k + 1] \notin {".", "-"}
              /\ s[k + 1] = "." => s[k] # "-"

\* the form's constraint validation: four `required` inputs, one of type email
ConstraintValid(d) ==
    /\ d.name # ""
    /\ d.email # <<>>
    /\ EmailTypeValid(d.email)
    /\ d.phone # <<>>
    /\ d.dob # ""

\* response.ok
ResponseOk(status) == status \in 200..299

\* faulty variant: the 'phone' test comes before the 'email' test
ThrownPhoneFirst(status, m) ==
    IF status = 400 /\ m = Undefined
      THEN UNDEFINED_INCLUDES_MSG
    ELSE IF status = 400 /\ Includes(m, KW_PHONE)
      THEN PHONE_DUP_MSG
    ELSE IF status = 400 /\ Includes(m, KW_EMAIL)
      THEN EMAIL_DUP_MSG
    ELSE IF m # Undefined /\ m # <<>>
      THEN m
    ELSE REG_FALLBACK_MSG

\* the error thrown by lines 141-152 for a non-ok response whose body parsed
\* to errorData with errorData.message = m
ThrownForResponse(status, m) ==
    IF status = 400 /\ m = Undefined
      THEN UNDEFINED_INCLUDES_MSG
    ELSE IF status = 400 /\ Includes(m, KW_EMAIL)
      THEN EMAIL_DUP_MSG
    ELSE IF status = 400 /\ Includes(m, KW_PHONE)
      THEN PHONE_DUP_MSG
    ELSE IF m # Undefined /\ m # <<>>
      THEN m
    ELSE REG_FALLBACK_MSG

\* the toast of the catch block (lines 157-170) for a caught Error with message msg
CatchToast(msg) ==
    IF Includes(msg, KW_EMAIL) THEN msg
    ELSE IF Includes(msg, KW_PHONE) THEN msg
    ELSE REG_GENERIC_TOAST

(***************************************************************************)
(* Dates: new Date(), date-fns addMonths, toISOString().split('T')[0]      *)
(***************************************************************************)
MinutesPerDay == 1440

Date(y, m, d) == [y |-> y, m |-> m, d |-> d]

IsLeapYear(y) == (y % 4 = 0 /\ y % 100 # 0) \/ y % 400 = 0

DaysInMonth(y, m) ==
    IF m = 2 THEN (IF IsLeapYear(y) THEN 29 ELSE 28)
    ELSE IF m \in {4, 6, 9, 11} THEN 30
    ELSE 31

\* addMonths(date, amount) of date-fns, on the local calendar date: the day of
\* the month is kept unless the target month is shorter, and then it is the
\* last day of the target month; the local time of day is kept
AddMonths(date, amount) ==
    LET total == (date.m - 1) + amount
        y == date.y + (total \div 12)
        m == (total % 12) + 1
        daysInMonth == DaysInMonth(y, m)
    IN  Date(y, m, IF date.d >= daysInMonth THEN daysInMonth ELSE date.d)

PrevDay(date) ==
    IF date.d > 1 THEN Date(date.y, date.m, date.d - 1)
    ELSE IF date.m > 1 THEN Date(date.y, date.m - 1, DaysInMonth(date.y, date.m - 1))
    ELSE Date(date.y - 1, 12, 31)

NextDay(date) ==
    IF date.d < DaysInMonth(date.y, date.m) THEN Date(date.y, date.m, date.d + 1)
    ELSE IF date.m < 12 THEN Date(date.y, date.m + 1, 1)
    ELSE Date(date.y + 1, 1, 1)

\* d.toISOString().split('T')[0] for the instant whose local date and minute of
\* day are given: toISOString converts to UTC, so this is the UTC calendar date
ToISODate(date, minute, offset) ==
    IF minute - offset < 0 THEN PrevDay(date)
    ELSE IF minute - offset >= MinutesPerDay THEN NextDay(date)
    ELSE date

Instant(date, minute) == [date |-> date, minute |-> minute]

\* values of new Date() the model draws from
DateSamples == {Date(2023, 1, 30), Date(2023, 1, 31), Date(2023, 3, 1),
                Date(2023, 8, 31), Date(2023, 12, 31), Date(2024, 1, 31)}
MinuteSamples == {120, 720, 1320}
ClockSamples == {Instant(d, m) : d \in DateSamples, m \in MinuteSamples}
\* UTC-05:00, UTC and UTC+05:30
TzSamples == {-300, 0, 330}

Earlier(a, b) ==
    \/ a.date.y < b.date.y
    \/ a.date.y = b.date.y /\ a.date.m < b.date.m
    \/ a.date.y = b.date.y /\ a.date.m = b.date.m /\ a.date.d < b.date.d
    \/ a.date = b.date /\ a.minute < b.minute

(***************************************************************************)
(* Plans and photo files of RegistrationForm                               *)
(***************************************************************************)
plans == {[id |-> "1month", price |-> 1500, months |-> 1],
          [id |-> "2month", price |-> 2500, months |-> 2],
          [id |-> "3month", price |-> 3500, months |-> 3],
          [id |-> "6month", price |-> 5000, months |-> 6],
          [id |-> "yearly", price |-> 8000, months |-> 12]}

\* file.size > 1 * 1024 * 1024
MaxPhotoBytes == 1048576

File(name, size) == [name |-> name, size |-> size]
NoPhoto == File("", 0)
PhotoSamples == {File("small.jpg", 204800), File("limit.jpg", 1048576),
                 File("over.jpg", 1048577), File("big.jpg", 2097152)}

PHOTO_SIZE_MSG == <<"P", "h", "o", "t", "o", " ", "s", "i", "z", "e", " ",
    "s", "h", "o", "u", "l", "d", " ", "b", "e", " ", "l", "e", "s", "s",
    " ", "t", "h", "a", "n", " ", "1", "M", "B">>

(***************************************************************************)
(* Registration: RegistrationForm                                          *)
(***************************************************************************)
RegReq(id, draft, phase, status) ==
    [id |-> id, draft |-> draft, phase |-> phase, status |-> status]

FormMounted == location = "/"

\* useState<FormData>({...}) at mount (lines 63-73)
InitialFormData ==
    [name |-> "", email |-> <<>>, phone |-> <<>>, dob |-> "", photo |-> NoPhoto,
     plan |-> "1month",
     startDate |-> ToISODate(now.date, now.minute, tz),
     endDate |-> ToISODate(AddMonths(now.date, 1), now.minute, tz),
     paymentMethod |-> "online"]

\* the component is not mounted: it has no state
NoDate == Date(0, 0, 0)
NoDraft ==
    [name |-> "", email |-> <<>>, phone |-> <<>>, dob |-> "", photo |-> NoPhoto,
     plan |-> "", startDate |-> NoDate, endDate |-> NoDate, paymentMethod |-> ""]

\* onChange of the name, email, phone and date-of-birth inputs, for values
\* drawn from the given sets
ChangeFieldIn(names, emails, phones, dobs) ==
    /\ FormMounted
    /\ \/ \E v \in names : formData' = [formData EXCEPT !.name = v]
       \/ \E v \in emails : formData' = [formData EXCEPT !.email = v]
       \/ \E v \in phones : formData' = [formData EXCEPT !.phone = v]
       \/ \E v \in dobs : formData' = [formData EXCEPT !.dob = v]
    /\ UNCHANGED <<regIsLoading, regReqs, regCount, regAccepted, toast, caught, blocked,
                   location>>
    /\ UNCHANGED <<sessVars, formVars, envVars, ruleVars>>

ChangeField == ChangeFieldIn(NameSamples, EmailSamples, PhoneSamples, DobSamples)

\* the same handlers, for a member who types acceptable values only
ChangeFieldValid == ChangeFieldIn({"Asha"}, {EM_GOOD}, {PH_10}, {"2001-05-17"})

\* faulty variant: the submit button is not disabled while loading
SubmitNeverDisabled == FormMounted

\* the submit control: <button type="submit" disabled={isLoading}>
SubmitEnabled == FormMounted /\ ~regIsLoading

\* a submit the browser refuses: onSubmit is not dispatched
SubmitBlocked ==
    /\ SubmitEnabled
    /\ ~ConstraintValid(formData)
    /\ blocked' = TRUE
    /\ UNCHANGED <<formData, regIsLoading, regReqs, regCount, regAccepted, toast, caught,
                   location>>
    /\ UNCHANGED <<sessVars, formVars, envVars, ruleVars>>

\* faulty variant: the phone guard is missing
ValidationErrorEmailOnly(d) ==
    IF ~EmailRegex(d.email) THEN EMAIL_INVALID_MSG ELSE <<>>

\* the guards of handleSubmit before the request is built (lines 112-122)
ValidationError(d) ==
    IF ~EmailRegex(d.email) THEN EMAIL_INVALID_MSG
    ELSE IF ~PhoneRegex(d.phone) THEN PHONE_INVALID_MSG
    ELSE <<>>

\* handleSubmit when a guard throws: setIsLoading(true), throw, catch, finally
SubmitRejected ==
    /\ SubmitEnabled
    /\ ConstraintValid(formData)
    /\ ValidationError(formData) # <<>>
    /\ blocked' = FALSE
    /\ caught' = ValidationError(formData)
    /\ toast' = CatchToast(ValidationError(formData))
    /\ regIsLoading' = FALSE
    /\ UNCHANGED <<formData, regReqs, regCount, regAccepted, location>>
    /\ UNCHANGED <<sessVars, formVars, envVars, ruleVars>>

\* handleSubmit up to the await of fetch (lines 107-139)
SubmitSent ==
    /\ SubmitEnabled
    /\ ConstraintValid(formData)
    /\ ValidationError(formData) = <<>>
    /\ regCount < MaxSubmits
    /\ blocked' = FALSE
    /\ regIsLoading' = TRUE
    /\ regAccepted' = regAccepted + 1
    /\ regCount' = regCount + 1
    /\ regReqs' = regReqs \cup {RegReq(regCount + 1, formData, "fetch", 0)}
    /\ UNCHANGED <<formData, toast, caught, location>>
    /\ UNCHANGED <<sessVars, formVars, envVars, ruleVars>>

\* faulty variant: the catch block also resets the draft
RegFailedResetsDraft(r, msg) ==
    /\ regReqs' = regReqs \ {r}
    /\ caught' = msg
    /\ toast' = CatchToast(msg)
    /\ regIsLoading' = FALSE
    /\ formData' = InitialFormData
    /\ UNCHANGED <<regCount, regAccepted, blocked, location>>
    /\ UNCHANGED <<sessVars, formVars, envVars, ruleVars>>

\* catch + finally for request r: console.error, toast.error, setIsLoading(false)
RegFailed(r, msg) ==
    /\ regReqs' = regReqs \ {r}
    /\ caught' = msg
    /\ toast' = CatchToast(msg)
    /\ regIsLoading' = FALSE
    /\ UNCHANGED <<formData, regCount, regAccepted, blocked, location>>
    /\ UNCHANGED <<sessVars, formVars, envVars, ruleVars>>

\* fetch rejected: transport failure
RegFetchRejected ==
    \E r \in regReqs :
        /\ r.phase = "fetch"
        /\ RegFailed(r, FETCH_FAILED_MSG)

\* fetch resolved with a status line; the handler awaits response.json()
RegFetchResolved ==
    /\ \E r \in regReqs, st \in Statuses :
          /\ r.phase = "fetch"
          /\ regReqs' = (regReqs \ {r}) \cup {RegReq(r.id, r.draft, "body", st)}
    /\ UNCHANGED <<formData, regIsLoading, regCount, regAccepted, toast, caught, blocked,
                   location>>
    /\ UNCHANGED <<sessVars, formVars, envVars, ruleVars>>

\* response.json() rejected, for an ok or a non-ok response
RegJsonRejected ==
    \E r \in regReqs :
        /\ r.phase = "body"
        /\ RegFailed(r, JSON_SYNTAX_MSG)

\* a non-ok response whose body parsed, with errorData.message = m
RegErrorBody(r, m) ==
    /\ r \in regReqs
    /\ r.phase = "body"
    /\ ~ResponseOk(r.status)
    /\ RegFailed(r, ThrownForResponse(r.status, m))

RegErrorResponse == \E r \in regReqs, m \in ServerMessages : RegErrorBody(r, m)

\* an ok response whose body parsed: toast.success, navigate('/thank-you')
RegSucceeded ==
    \E r \in regReqs :
        /\ r.phase = "body"
        /\ ResponseOk(r.status)
        /\ regReqs' = regReqs \ {r}
        /\ toast' = REG_SUCCESS_TOAST
        /\ location' = "/thank-you"
        /\ regIsLoading' = FALSE
        /\ formData' = NoDraft
        /\ fileInput' = NoPhoto
        /\ photoPreview' = NoPhoto
        /\ selectedPlan' = ""
        /\ UNCHANGED <<regCount, regAccepted, caught, blocked, reads>>
        /\ UNCHANGED <<sessVars, envVars, ruleVars>>

\* faulty variant: the size guard also refuses a file of exactly the limit
PhotoTooLargeAtLimit(file) == file.size >= MaxPhotoBytes

\* the guard of handlePhotoChange: file.size > 1 * 1024 * 1024
PhotoTooLarge(file) == file.size > MaxPhotoBytes

\* faulty variant: the read is started before the size is looked at
PhotoReadBeforeSizeCheck(file) ==
    /\ FormMounted
    /\ file # fileInput
    /\ fileInput' = file
    /\ reads' = reads \cup {file}
    /\ IF PhotoTooLarge(file)
       THEN toast' = PHOTO_SIZE_MSG /\ UNCHANGED formData
       ELSE formData' = [formData EXCEPT !.photo = file] /\ UNCHANGED toast
    /\ UNCHANGED <<regIsLoading, regReqs, regCount, regAccepted, caught, blocked,
                   location, photoPreview, selectedPlan>>
    /\ UNCHANGED <<sessVars, envVars, ruleVars>>

\* onChange of the file input, fired when another file is selected:
\* handlePhotoChange (lines 79-93)
handlePhotoChange(file) ==
    /\ FormMounted
    /\ file # fileInput
    /\ fileInput' = file
    /\ IF PhotoTooLarge(file)
       THEN toast' = PHOTO_SIZE_MSG /\ UNCHANGED <<formData, reads>>
       ELSE /\ formData' = [formData EXCEPT !.photo = file]
            /\ reads' = reads \cup {file}
            /\ UNCHANGED toast
    /\ UNCHANGED <<regIsLoading, regReqs, regCount, regAccepted, caught, blocked,
                   location, photoPreview, selectedPlan>>
    /\ UNCHANGED <<sessVars, envVars, ruleVars>>

PhotoChange == \E file \in PhotoSamples : handlePhotoChange(file)

\* reader.onloadend: setPhotoPreview(reader.result); a setter of an unmounted
\* component does nothing
PhotoLoadEnd ==
    /\ \E file \in reads :
          /\ reads' = reads \ {file}
          /\ photoPreview' = IF FormMounted THEN file ELSE photoPreview
    /\ UNCHANGED <<regVars, fileInput, selectedPlan>>
    /\ UNCHANGED <<sessVars, envVars, ruleVars>>

\* handlePlanSelect(plan) (lines 95-105)
handlePlanSelect(plan) ==
    /\ FormMounted
    /\ selectedPlan' = plan.id
    /\ formData' = [formData EXCEPT
                      !.plan = plan.id,
                      !.startDate = ToISODate(now.date, now.minute, tz),
                      !.endDate = ToISODate(AddMonths(now.date, plan.months),
                                            now.minute, tz)]
    /\ UNCHANGED <<regIsLoading, regReqs, regCount, regAccepted, toast, caught,
                   blocked, location, fileInput, photoPreview, reads>>
    /\ UNCHANGED <<sessVars, envVars, ruleVars>>

PlanSelect == \E plan \in plans : handlePlanSelect(plan)

\* time passes between two events: new Date() returns a later instant
TimePasses ==
    /\ \E t \in ClockSamples : Earlier(now, t) /\ now' = t
    /\ UNCHANGED <<sessVars, regVars, formVars, tz, ruleVars>>

(***************************************************************************)
(* The application                                                         *)
(***************************************************************************)
\* RegistrationForm as mounted
InitForm ==
    /\ formData = InitialFormData
    /\ fileInput = NoPhoto
    /\ photoPreview = NoPhoto
    /\ reads = {}
    /\ selectedPlan = "1month"

\* nothing typed, no rule applied
InitRule ==
    /\ rule = "email"
    /\ probe = <<>>
    /\ verdict = "none"

\* App and AdminLogin before the mount effect has run
InitSession ==
    /\ token \in {NoToken, StoredToken}
    /\ isAdminLoggedIn = FALSE
    /\ appMounted = FALSE
    /\ verify = "idle"
    /\ verifyToken = NoToken
    /\ verifyWait = 0
    /\ lastCheck = "none"
    /\ loginGen = 0
    /\ credentials = BlankCredentials
    /\ error = NoError
    /\ isLoading = FALSE
    /\ loginReqs = {}
    /\ loginCount = 0
    /\ adminToast = NoError

\* no submit made yet
InitReg ==
    /\ regIsLoading = FALSE
    /\ regReqs = {}
    /\ regCount = 0
    /\ regAccepted = 0
    /\ toast = <<>>
    /\ caught = <<>>
    /\ blocked = FALSE

Init ==
    /\ InitSession
    /\ now = Instant(Date(2023, 8, 31), 720)
    /\ tz = 330
    /\ InitForm
    /\ InitReg
    /\ InitRule
    /\ location \in {"/", "/admin"}

Next ==
    \/ Bootstrap
    \/ VerifyOk
    \/ VerifyNon2xx
    \/ VerifyRejected
    \/ Tick
    \/ Logout
    \/ ChangeCredentials
    \/ LoginSubmit
    \/ LoginFetchResolved
    \/ LoginAborted
    \/ LoginFetchRejected
    \/ LoginJsonRejected
    \/ LoginRefused
    \/ LoginSucceeded
    \/ ChangeField
    \/ SubmitBlocked
    \/ SubmitRejected
    \/ SubmitSent
    \/ RegFetchRejected
    \/ RegFetchResolved
    \/ RegJsonRejected
    \/ RegErrorResponse
    \/ RegSucceeded

Spec == Init /\ [][Next]_vars

(***************************************************************************)
(* What is sure to happen.  The abort timer of AdminLogin fires while its  *)
(* fetch is pending; a response whose status line has arrived delivers its *)
(* body or fails to.  Nothing makes a server answer a request at all, so   *)
(* the arrival of a status line is not assumed.                            *)
(***************************************************************************)
LoginBodySettles == LoginJsonRejected \/ LoginRefused \/ LoginSucceeded

RegBodySettles == RegJsonRejected \/ RegErrorResponse \/ RegSucceeded

SpecFair ==
    /\ Spec
    /\ WF_vars(LoginAborted)
    /\ WF_vars(LoginBodySettles)
    /\ WF_vars(RegBodySettles)

(***************************************************************************)
(* The draft with its photo: a page loaded at /, a member who types        *)
(* acceptable values, chooses photo files and submits.                     *)
(***************************************************************************)
InitDraft == Init /\ location = "/"

NextDraft ==
    \/ ChangeFieldValid
    \/ PhotoChange
    \/ PhotoLoadEnd
    \/ SubmitBlocked
    \/ SubmitSent
    \/ RegFetchRejected
    \/ RegFetchResolved
    \/ RegJsonRejected
    \/ RegErrorResponse
    \/ RegSucceeded

SpecDraft == InitDraft /\ [][NextDraft]_vars

(***************************************************************************)
(* The membership window: a page loaded at / at any of the sampled         *)
(* instants and offsets, a member who selects plans as time passes.        *)
(***************************************************************************)
InitDates ==
    /\ InitSession
    /\ now \in ClockSamples
    /\ tz \in TzSamples
    /\ InitForm
    /\ InitReg
    /\ InitRule
    /\ location = "/"

NextDates ==
    \/ PlanSelect
    \/ TimePasses

SpecDates == InitDates /\ [][NextDates]_vars

(***************************************************************************)
(* The two patterns of handleSubmit on every string of a small alphabet.   *)
(***************************************************************************)
PhoneAlphabet == {"7", "x"}
EmailAlphabet == {"a", "@", ".", " "}

\* one more character typed into the input
TypeChar ==
    /\ \/ /\ rule = "phone"
          /\ Len(probe) < MaxPhoneLen
          /\ \E c \in PhoneAlphabet : probe' = Append(probe, c)
       \/ /\ rule = "email"
          /\ Len(probe) < MaxEmailLen
          /\ \E c \in EmailAlphabet : probe' = Append(probe, c)
    /\ verdict' = "none"
    /\ UNCHANGED <<sessVars, regVars, formVars, envVars, rule>>

\* if (!emailRegex.test(...)) (line 114) and if (!phoneRegex.test(...)) (line 120)
ApplyRule ==
    /\ verdict = "none"
    /\ verdict' = IF rule = "email"
                  THEN (IF EmailRegex(probe) THEN "accept" ELSE "reject")
                  ELSE (IF PhoneRegex(probe) THEN "accept" ELSE "reject")
    /\ UNCHANGED <<sessVars, regVars, formVars, envVars, rule, probe>>

InitRules ==
    /\ InitSession
    /\ now = Instant(Date(2023, 8, 31), 720)
    /\ tz = 330
    /\ InitForm
    /\ InitReg
    /\ rule \in {"email", "phone"}
    /\ probe = <<>>
    /\ verdict = "none"
    /\ location = "/"

NextRules ==
    \/ TypeChar
    \/ ApplyRule

SpecRules == InitRules /\ [][NextRules]_vars

(***************************************************************************)
(* Properties                                                              *)
(***************************************************************************)
\* The session states of the design, read off the program state: no stored
\* token is anonymous; a stored token whose last check (verification or login)
\* succeeded is authenticated; a stored token under verification is verifying.
SessionState ==
    IF token = NoToken THEN "anonymous"
    ELSE IF lastCheck = "ok" THEN "authenticated"
    ELSE IF verify = "pending" THEN "verifying"
    ELSE "anonymous"

\* C1: isAdminLoggedIn is true only if the last check of a session credential
\* (the bootstrap verification, or the credential check of a login that the
\* login endpoint answered with 2xx) succeeded.
C1_LoggedInOnlyAfterSuccessfulCheck == isAdminLoggedIn => lastCheck = "ok"

\* C1 witness: logged in after both a bootstrap verification and a login ended
C1_Witness ==
    /\ isAdminLoggedIn
    /\ verify = "settled"
    /\ loginCount > 0 /\ loginReqs = {}

\* C2 (as claimed): whenever no token is stored, the session is not logged in
C2_AbsentTokenMeansAnonymous == token = NoToken => ~isAdminLoggedIn

\* C3 (as claimed): the admin panel is rendered only in session state
\* authenticated, never while the session is anonymous or verifying
C3_PanelOnlyWhenAuthenticated == AdminPanelRendered => SessionState = "authenticated"

C5_BootstrapTimesOut ==
    verifyWait > TimeoutSecs =>
        (verify = "settled" /\ token = NoToken /\ ~isAdminLoggedIn)

\* C6 (as claimed): after every 2xx answer of the login endpoint the token is
\* persisted and the session is logged in, in the same step
C6_LoginPersistsToken ==
    [][LoginSucceeded => (token' # NoToken /\ isAdminLoggedIn')]_vars

\* C7: logout clears the persisted token and leaves the session anonymous
C7_LogoutClears ==
    [][Logout => (token' = NoToken /\ ~isAdminLoggedIn' /\ SessionState' = "anonymous")]_vars

\* C7 witness: a session that had been checked successfully has logged out
C7_Witness ==
    /\ appMounted /\ lastCheck = "ok"
    /\ ~isAdminLoggedIn /\ token = NoToken

\* the validation rules of the draft: required fields, email rule, phone rule
LocallyValid(d) ==
    /\ d.name # "" /\ d.email # <<>> /\ d.phone # <<>> /\ d.dob # ""
    /\ EmailRegex(d.email)
    /\ PhoneRegex(d.phone)

SubmitAttempt == SubmitBlocked \/ SubmitRejected \/ SubmitSent

ValidationFailureShown ==
    blocked \/ toast \in {EMAIL_INVALID_MSG, PHONE_INVALID_MSG}

\* C8: a submit of a draft that fails local validation issues no request and
\* ends in a validation failure (the browser's refusal, or the handler's toast)
C8_InvalidDraftIssuesNoRequest ==
    [][ (SubmitAttempt /\ ~LocallyValid(formData)) =>
            /\ regReqs' = regReqs /\ regCount' = regCount
            /\ ~regIsLoading'
            /\ ValidationFailureShown' ]_vars

\* C8 witness: the handler has refused a draft with a bad phone, nothing was sent
C8_Witness ==
    /\ caught = PHONE_INVALID_MSG /\ toast = PHONE_INVALID_MSG
    /\ regCount = 0 /\ ~regIsLoading
    /\ ~LocallyValid(formData)

\* C9 (as claimed): at most one registration call and at most one login call
\* is outstanding at any time
C9_OneCallOutstanding == Cardinality(regReqs) <= 1 /\ Cardinality(loginReqs) <= 1

\* C9 (amended): each mounted form instance has at most one call outstanding,
\* its control is disabled while that call is outstanding, and every accepted
\* registration submit caused exactly one request
C9_OneCallPerFormInstance ==
    /\ Cardinality(regReqs) <= 1
    /\ regReqs # {} => regIsLoading
    /\ regCount = regAccepted
    /\ \A r1 \in loginReqs, r2 \in loginReqs : r1.gen = r2.gen => r1 = r2
    /\ \A r \in loginReqs : InstanceAlive(r) => isLoading

\* C9 witness: two login calls outstanding, issued by two AdminLogin instances
C9_Witness ==
    /\ Cardinality(loginReqs) = 2
    /\ isLoading
    /\ \E r \in loginReqs : ~InstanceAlive(r)

MentionsEmail(m) == Includes(m, KW_EMAIL)
MentionsPhone(m) == Includes(m, KW_PHONE)

RegCompletes(r) == r \in regReqs /\ \A q \in regReqs' : q.id # r.id

\* C12 (as stated): once a submit has completed, with success or with failure,
\* the form no longer holds the submitted field values.
C12_DraftDiscardedOnCompletion ==
    [][\A r \in regReqs : RegCompletes(r) => formData' # r.draft]_vars

\* C12 (amended): a successful submit leaves the form, and the draft goes with
\* it; a failed submit leaves the draft in the form as it was; in neither case
\* is the request issued again.
C12_DraftDiscardedOnSuccessOnly ==
    [][\A r \in regReqs : RegCompletes(r) =>
            /\ regReqs' = regReqs \ {r}
            /\ regCount' = regCount
            /\ IF toast' = REG_SUCCESS_TOAST
               THEN formData' = NoDraft /\ location' = "/thank-you"
               ELSE formData' = formData /\ FormMounted']_vars

\* a submit of a valid draft has failed and the form still holds that draft
C12_Witness ==
    /\ FormMounted
    /\ regAccepted > 0
    /\ regReqs = {}
    /\ caught = FETCH_FAILED_MSG
    /\ LocallyValid(formData)

\* duration in months of the plan with the given id
PlanMonths(id) == (CHOOSE plan \in plans : plan.id = id).months

\* C13: in every draft state the end date is the start date moved forward by
\* the months of the draft's plan, clamped to the last day of a shorter month,
\* and the draft's plan is the plan shown as selected.
C13_WindowMatchesPlan ==
    FormMounted =>
        /\ formData.plan = selectedPlan
        /\ formData.endDate = AddMonths(formData.startDate, PlanMonths(formData.plan))

AsciiDigits == {"0", "1", "2", "3", "4", "5", "6", "7", "8", "9"}

\* the string consists of exactly ten characters, each an ASCII digit
TenAsciiDigits(s) ==
    /\ Len(s) = 10
    /\ Cardinality({k \in DOMAIN s : s[k] \in AsciiDigits}) = 10

\* C14: the phone rule accepts a string if and only if it consists of exactly
\* ten ASCII digits.
C14_PhoneRule ==
    (rule = "phone" /\ verdict # "none") =>
        (verdict = "accept" <=> TenAsciiDigits(probe))

\* a string of ten digits has been judged
C14_Witness ==
    /\ rule = "phone"
    /\ verdict = "accept"
    /\ Len(probe) = 10

\* positions of the character c in s
Positions(s, c) == {k \in DOMAIN s : s[k] = c}

\* local@domain with a non-empty local part, exactly one "@", no white space,
\* and in the domain a "." that is neither its first nor its last character
EmailShape(s) ==
    /\ Positions(s, " ") = {}
    /\ Cardinality(Positions(s, "@")) = 1
    /\ LET at == CHOOSE k \in Positions(s, "@") : TRUE
       IN  /\ at > 1
           /\ \E k \in Positions(s, ".") : k > at + 1 /\ k < Len(s)

\* C15: the email rule rejects every string with no "@" or with no "." after
\* the "@", accepts a@b.co, and accepts exactly the strings made of one or more
\* non-space non-"@" characters, "@", one or more such characters, ".", and one
\* or more such characters.
C15_EmailRule ==
    /\ EmailRegex(EM_GOOD)
    /\ (rule = "email" /\ verdict # "none") =>
          /\ verdict = "accept" <=> EmailShape(probe)
          /\ Positions(probe, "@") = {} => verdict = "reject"
          /\ (\A k \in Positions(probe, ".") : \E a \in Positions(probe, "@") : k < a)
                => verdict = "reject"

\* an address with two dots in a row after the "@" has been judged acceptable
C15_Witness ==
    /\ rule = "email"
    /\ verdict = "accept"
    /\ probe = <<"a", "@", "a", ".", ".", "a">>

\* C16 (as stated): while the photo of the draft is still being read the
\* submit control is not enabled, and no file above the limit is ever read.
C16_SubmitWaitsForRead ==
    /\ (FormMounted /\ formData.photo \in reads) => ~SubmitEnabled
    /\ \A file \in reads : file.size <= MaxPhotoBytes

\* C16 (amended): the read is a step of its own that starts only for a file
\* that passed the size check and only feeds the preview; choosing a photo
\* leaves the submit control as it was, whether the read has finished or not.
C16_ReadOnlyAfterSizeCheck ==
    /\ [](/\ \A file \in reads : file.size <= MaxPhotoBytes
          /\ photoPreview.size <= MaxPhotoBytes)
    /\ [][(FormMounted' /\ fileInput' # fileInput) =>
            /\ fileInput'.size <= MaxPhotoBytes => fileInput' \in reads'
            /\ fileInput'.size > MaxPhotoBytes => reads' = reads
            /\ photoPreview' = photoPreview
            /\ SubmitEnabled' <=> SubmitEnabled]_vars

\* a request was sent with a photo whose read has not finished
C16_Witness ==
    \E r \in regReqs : r.draft.photo # NoPhoto /\ r.draft.photo \in reads

\* the login call, or the registration call, with the given id is outstanding
LoginOutstanding(i) == \E r \in loginReqs : r.id = i
RegOutstanding(i) == \E r \in regReqs : r.id = i

\* C17: every started registration submit and every started login attempt
\* eventually completes, whatever the server does, and the loading flag of the
\* form returns to false.
C17_EveryCallCompletes ==
    /\ \A i \in 1..MaxLogins : LoginOutstanding(i) ~> ~LoginOutstanding(i)
    /\ \A i \in 1..MaxSubmits : RegOutstanding(i) ~> ~RegOutstanding(i)
    /\ regIsLoading ~> ~regIsLoading

\* the login half of C17 on its own
LoginCallsComplete ==
    \A i \in 1..MaxLogins : LoginOutstanding(i) ~> ~LoginOutstanding(i)

\* C18: the token stored by a successful login is removed, and the session
\* it opened is reverted, only by a logout or by the failed verification of
\* that same token; the late result of the verification of an older token
\* does neither.
C18_StaleVerifyKeepsNewToken ==
    [][(/\ token = IssuedToken
        /\ token' # IssuedToken \/ (isAdminLoggedIn /\ ~isAdminLoggedIn'))
       => \/ Logout
          \/ (VerifyNon2xx \/ VerifyRejected) /\ verifyToken = IssuedToken]_vars

====
